---- MODULE Spec2Model ----
(***************************************************************************)
(* A state-machine model of token_cloak (ryannjohnson/token-cloak-python): *)
(* the Token object of token_cloak/tokens.py, its operations, and the      *)
(* helpers of collections.py and utils.py they call.                       *)
(*                                                                         *)
(* Python semantics are followed statement by statement: a statement that  *)
(* reads a name the function never binds ends the call with NameError, a   *)
(* call of a non-callable ends it with TypeError, a read of an attribute   *)
(* the object does not have ends it with AttributeError.  Assignments made *)
(* before the raising statement stay in the object.                        *)
(*                                                                         *)
(* Token.__init__ stores a dict in self.config and then calls              *)
(* self.config(config); the instance attribute hides the method, so        *)
(* Token(config) raises for every non-empty config.  The method itself is  *)
(* reachable through the class, Token.config(token, config), and is the    *)
(* action Config below.                                                    *)
(***************************************************************************)
EXTENDS Integers, Sequences, FiniteSets, TLC

VARIABLES
    secret_key,             \* Token.secret_key: None or a str
    secret_key_collection,  \* Token.secret_key_collection: unset, or the key's bits
    seed_bits,              \* Token.seed_bits
    random_bits,            \* Token.random_bits
    layers,                 \* Token.layers: a list
    public_token,           \* Token.public_token: None, a BitCollection or a str
    stored_token,           \* Token.stored_token: None, a BitCollection or an int
    stored_token_bits,      \* Token.stored_token_bits: unset or an int
    actual_length,          \* Token.actual_length: unset or an int
    config,                 \* Token.config: TRUE when the dict stored there is not empty
    heap,                   \* the BitCollection objects created so far: id -> bits
    last,                   \* the last call: operation, arguments, outcome
    returned,               \* ids of the BitCollection objects of the results returned
    encoded                 \* the last encode call that returned

vars == << secret_key, secret_key_collection, seed_bits, random_bits, layers,
           public_token, stored_token, stored_token_bits, actual_length,
           config, heap, last, returned, encoded >>

token == << secret_key, secret_key_collection, seed_bits, random_bits, layers,
            public_token, stored_token, stored_token_bits, actual_length, config >>

-----------------------------------------------------------------------------
(* Bounds of the model. *)

\* Most BitCollection objects the model creates (encode creates two per call).
MaxObjects == 4

\* Most arguments handed to one encode call.
MaxArgs == 1

\* Most layers add_layer appends.
MaxLayers == 1

-----------------------------------------------------------------------------
(* Python values: a tag and a payload. *)

None == [t |-> "None", v |-> 0]

Unset == [t |-> "unset", v |-> 0]

PyInt(n) == [t |-> "int", v |-> n]

PyStr(s) == [t |-> "str", v |-> s]

Ref(id) == [t |-> "BitCollection", v |-> id]

\* The Token itself, as `return self` hands it back.
Self == [t |-> "Token", v |-> 0]

Tuple(s) == [t |-> "tuple", v |-> s]

\* Python truthiness of the values the model uses.  BitCollection defines
\* neither __bool__ nor __len__, so an instance is always true.
Truthy(x) ==
    CASE x.t = "None" -> FALSE
      [] x.t = "int" -> x.v # 0
      [] x.t = "str" -> x.v # << >>
      [] x.t = "tuple" -> x.v # << >>
      [] OTHER -> TRUE

-----------------------------------------------------------------------------
(* Integer helpers. *)

RECURSIVE Pow2(_)
Pow2(n) == IF n = 0 THEN 1 ELSE 2 * Pow2(n - 1)

RECURSIVE bit_length(_)
bit_length(n) == IF n = 0 THEN 0 ELSE 1 + bit_length(n \div 2)

\* Bit j of the non-negative integer i: (i & (1 << j)) >> j.
BitOf(i, j) == (i \div Pow2(j)) % 2

RECURSIVE BitAnd(_, _)
BitAnd(a, b) ==
    IF a = 0 \/ b = 0 THEN 0
    ELSE (a % 2) * (b % 2) + 2 * BitAnd(a \div 2, b \div 2)

\* A conversion that appends bit j instead of inserting it at the front.
RECURSIVE int_to_bitarray_appending(_, _)
int_to_bitarray_appending(i, bits) ==
    IF bits = 0 THEN << >>
    ELSE << i % 2 >> \o int_to_bitarray_appending(i \div 2, bits - 1)

\* utils.int_to_bitarray: bit j of i is inserted at the front, j = 0..bits-1,
\* so the result holds the low `bits` bits of i, most significant first.
RECURSIVE int_to_bitarray(_, _)
int_to_bitarray(i, bits) ==
    IF bits = 0 THEN << >>
    ELSE << BitOf(i, bits - 1) >> \o int_to_bitarray(i, bits - 1)

\* utils.bitarray_to_int: int(b.to01(), 2).
RECURSIVE bitarray_to_int(_)
bitarray_to_int(b) ==
    IF b = << >> THEN 0
    ELSE 2 * bitarray_to_int(SubSeq(b, 1, Len(b) - 1)) + b[Len(b)]

\* bitarray.frombytes: each byte most significant bit first.
RECURSIVE frombytes(_)
frombytes(bs) ==
    IF bs = << >> THEN << >>
    ELSE int_to_bitarray(bs[1], 8) \o frombytes(Tail(bs))

\* All byte strings of length n over the byte values in S.
RECURSIVE ByteStrings(_, _)
ByteStrings(S, n) ==
    IF n = 0 THEN { << >> }
    ELSE { << b >> \o r : b \in S, r \in ByteStrings(S, n - 1) }

-----------------------------------------------------------------------------
(* Base64 text, as utils.b64_to_int reads it. *)

\* The base64 alphabet in index order.
B64Alphabet ==
    << "A","B","C","D","E","F","G","H","I","J","K","L","M",
       "N","O","P","Q","R","S","T","U","V","W","X","Y","Z",
       "a","b","c","d","e","f","g","h","i","j","k","l","m",
       "n","o","p","q","r","s","t","u","v","w","x","y","z",
       "0","1","2","3","4","5","6","7","8","9","+","/" >>

B64Value(c) == (CHOOSE i \in 1..64 : B64Alphabet[i] = c) - 1

\* The characters the pattern ^[a-zA-Z0-9\-_]+$ of decode_b64 accepts.
UrlSafeChars == { B64Alphabet[i] : i \in 1..62 } \cup { "-", "_" }

\* s.replace('-','+').replace('_','/')
UrlUnsafe(s) ==
    [ i \in 1..Len(s) |-> IF s[i] = "-" THEN "+" ELSE IF s[i] = "_" THEN "/" ELSE s[i] ]

RECURSIVE SextetBits(_)
SextetBits(s) ==
    IF s = << >> THEN << >>
    ELSE int_to_bitarray(B64Value(s[1]), 6) \o SextetBits(Tail(s))

\* utils.unpack_bigint: byte `index` weighs 1 << (index * 8), first byte lowest.
RECURSIVE unpack_bigint(_)
unpack_bigint(bits) ==
    IF Len(bits) < 8 THEN 0
    ELSE bitarray_to_int(SubSeq(bits, 1, 8))
         + 256 * unpack_bigint(SubSeq(bits, 9, Len(bits)))

\* utils.b64_to_int with url_safe=True on text of alphabet characters:
\* '==' is appended and base64.b64decode is called.  One data character more
\* than a multiple of four cannot be decoded (binascii.Error); otherwise the
\* whole bytes of the 6-bit groups are kept and unpacked.
\* [ok |-> FALSE] stands for the exception.
b64_to_int(s) ==
    IF Len(s) % 4 = 1 THEN [ok |-> FALSE, v |-> 0]
    ELSE LET bits == SextetBits(UrlUnsafe(s))
             n == (Len(bits) \div 8) * 8
         IN  [ok |-> TRUE, v |-> unpack_bigint(SubSeq(bits, 1, n))]

-----------------------------------------------------------------------------
(* collections.SecretKeyCollection *)

\* SecretKeyCollection.__init__: per character t = (code - 32) & 0x5F, its low
\* six bits are put in front of the bits so far; zeros in front fill the byte.
RECURSIVE SqueezeKey(_, _)
SqueezeKey(codes, bits) ==
    IF codes = << >> THEN bits
    ELSE SqueezeKey(Tail(codes),
                    int_to_bitarray(BitAnd(codes[1] - 32, 95), 6) \o bits)

SecretKeyCollection(s) ==
    LET bits == SqueezeKey(s, << >>)
        mod == Len(bits) % 8
    IN  IF mod # 0 THEN [ i \in 1..(8 - mod) |-> 0 ] \o bits ELSE bits

-----------------------------------------------------------------------------
(* tokens.TokenLayer *)

TYPES == { "int", "bytes", "str", "hex", "base64" }

\* TokenLayer.__init__ on a dict d: the exception it ends with.  After the type
\* test, line 46 reads the unbound name `bits` when d has a 'bits' entry, and
\* line 51 reads the unbound name `length` otherwise: no layer is ever built.
TokenLayer(d) ==
    IF d.type \notin TYPES THEN "ConfigError"
    ELSE "NameError"

-----------------------------------------------------------------------------
(* Inputs. *)

\* token_cloak.secret_key, the module-level fallback key.
global_secret_key == None

\* Secret keys "s1" and "s2" (character codes).
Keys == { PyStr(<< 115, 49 >>), PyStr(<< 115, 50 >>) }

\* Layer dicts a config may carry.
LayerDicts ==
    { [type |-> "int", bits |-> PyInt(2), length |-> None, positions |-> None],
      [type |-> "int", bits |-> PyInt(2), length |-> None,
       positions |-> Tuple(<< 0, 1 >>)],
      [type |-> "BitCollection", bits |-> PyInt(2), length |-> None,
       positions |-> None] }

\* Config dicts: their 'secret_key', 'random_bits', 'seed_bits' and 'layers'
\* entries (None: the entry is absent).
Config4(k, r, s, l) ==
    [secret_key |-> k, random_bits |-> PyInt(r), seed_bits |-> PyInt(s), layers |-> l]

\* A config whose key "s1" has fewer characters than it has layers without
\* positions.
ShortKeyConfig ==
    LET d == [type |-> "int", bits |-> PyInt(2), length |-> None,
              positions |-> None]
    IN  Config4(PyStr(<< 115, 49 >>), 8, 0, << d, d, d >>)

Configs ==
    { Config4(k, 8, 0, << >>) : k \in Keys \cup { None } }
    \cup { Config4(PyStr(<< 115, 49 >>), 12, 2, << >>) }
    \cup { Config4(PyStr(<< 115, 49 >>), 8, 0, << d >>) : d \in LayerDicts }
    \cup { ShortKeyConfig }

\* The empty dict.
EmptyDict == [secret_key |-> None, random_bits |-> None, seed_bits |-> None,
              layers |-> << >>]

\* The configs handed to the constructor: none, and one with an int layer.
InitConfigs ==
    { EmptyDict,
      Config4(PyStr(<< 115, 49 >>), 8, 0,
              << [type |-> "int", bits |-> PyInt(2), length |-> None,
                  positions |-> None] >>),
      ShortKeyConfig }

\* Python's truth value of a dict.
DictTruthy(d) == d # EmptyDict

\* What os.urandom may return per byte.
RandomByteValues == { 0, 165 }

\* Argument tuples of encode.
ArgValues == { PyInt(1) }

RECURSIVE ArgTuples(_)
ArgTuples(n) ==
    IF n = 0 THEN { << >> }
    ELSE ArgTuples(n - 1)
         \cup { Append(a, x) : a \in { b \in ArgTuples(n - 1) : Len(b) = n - 1 },
                               x \in ArgValues }

\* Tokens handed to decode besides the object encode returned.
TokenInputs ==
    { PyStr(<< >>), PyStr(<< "=" >>), PyStr(<< "I", "A" >>) }

\* The data_type argument of decode ("None": not given).
DataTypes == { "None", "bogus" }

\* The (token, data_type) pairs handed to decode: the sample texts, the
\* object the last encode returned (ref; 0: there is none) and the text
\* encode_b64 left in public_token (pub; not a str: there is none).
\* With a data_type: the integer 5 as 'int' and the text 'pQ', the byte 165,
\* as 'base64'.
DecodeInputs(ref, pub) ==
    { << tok, "None" >> : tok \in TokenInputs \cup ({ pub } \cap { PyStr(pub.v) }) }
    \cup { << Ref(id), "None" >> : id \in { ref } \ { 0 } }
    \cup { << PyStr(<< >>), "bogus" >> }
    \cup { << PyInt(5), "int" >>, << PyStr(<< "p", "Q" >>), "base64" >> }

\* What random.randint(0, 63) may return in encode_b64.
PaddingValues == { 0, 63 }

\* set_random_bits arguments.
RandomBitsInputs == { 5 }

-----------------------------------------------------------------------------
(* The record of a call. *)

Raised(op, arg, exc) ==
    [op |-> op, arg |-> arg, outcome |-> "raise", exc |-> exc, value |-> None]

Returned(op, arg, value) ==
    [op |-> op, arg |-> arg, outcome |-> "return", exc |-> "none", value |-> value]

\* The record of the last encode call that returned: the ids of the public
\* and the stored token it left, its arguments, the Token's secret key,
\* seed_bits, random_bits and stored_token_bits at that time, and `b64`:
\* encode_b64 has since replaced that public token by its base64 text.
\* NoEncode: no encode call has returned yet.
NoEncode == [id |-> 0, private |-> 0, key |-> None, args |-> << >>,
             settings |-> << >>, b64 |-> FALSE]

\* Token.__init__, lines 247-264: the attributes of a Token built without config.
Defaults ==
    /\ secret_key' = None
    /\ secret_key_collection' = Unset
    /\ seed_bits' = 4
    /\ random_bits' = 512
    /\ layers' = << >>
    /\ public_token' = None
    /\ stored_token' = None
    /\ stored_token_bits' = Unset
    /\ actual_length' = Unset
    /\ config' = FALSE

Init ==
    /\ secret_key = None
    /\ secret_key_collection = Unset
    /\ seed_bits = 4
    /\ random_bits = 512
    /\ layers = << >>
    /\ public_token = None
    /\ stored_token = None
    /\ stored_token_bits = Unset
    /\ actual_length = Unset
    /\ config = FALSE
    /\ heap = << >>
    /\ last = Returned("Token", EmptyDict, None)
    /\ returned = {}
    /\ encoded = NoEncode

-----------------------------------------------------------------------------
(* Token(config): a new Token takes the place of the old one when the       *)
(* constructor returns, and the old one's objects are dropped with it.      *)
(* `if config: self.config(config)` calls the dict stored one line earlier: *)
(* TypeError, and no Token is built.                                        *)
TokenInit(cfg) ==
    IF DictTruthy(cfg)
    THEN /\ last' = Raised("Token", cfg, "TypeError")
         /\ UNCHANGED << token, heap, returned, encoded >>
    ELSE /\ Defaults
         /\ last' = Returned("Token", cfg, None)
         /\ returned' = {}
         /\ encoded' = NoEncode
         /\ heap' = << >>

-----------------------------------------------------------------------------
(* Token.config(self, config), lines 269-332. *)

\* The secret the method settles on (lines 280-291); None: ConfigError.
ConfigSecret(cfg) ==
    IF Truthy(cfg.secret_key) THEN cfg.secret_key
    ELSE IF Truthy(global_secret_key) THEN global_secret_key
    ELSE None

Config(cfg) ==
    LET secret == ConfigSecret(cfg) IN
    /\ config' = DictTruthy(cfg)
    /\ UNCHANGED << random_bits, public_token, actual_length, heap, returned, encoded >>
    /\ IF ~Truthy(secret)
       THEN \* line 290: raise ConfigError('secret key is not set')
            /\ last' = Raised("config", cfg, "ConfigError")
            /\ UNCHANGED << secret_key, secret_key_collection, seed_bits, layers,
                            stored_token, stored_token_bits >>
       ELSE /\ secret_key' = secret
            /\ secret_key_collection' = Tuple(SecretKeyCollection(secret.v))
            /\ stored_token' = None
            /\ stored_token_bits' =
                  IF Truthy(cfg.random_bits) THEN cfg.random_bits
                  ELSE stored_token_bits
            /\ seed_bits' =
                  IF Truthy(cfg.seed_bits) THEN cfg.seed_bits.v ELSE seed_bits
            /\ layers' = << >>
            /\ IF cfg.layers # << >>
               THEN \* line 332: TokenLayer(row) raises on the first row
                    last' = Raised("config", cfg, TokenLayer(cfg.layers[1]))
               ELSE last' = Returned("config", cfg, None)

-----------------------------------------------------------------------------
(* Token.set_random_bits(num), lines 520-538. *)
SetRandomBits(num) ==
    LET mod == num % 8 IN
    /\ random_bits' = IF mod # 0 THEN num + (8 - mod) ELSE num
    /\ last' = Returned("set_random_bits", PyInt(num), Self)
    /\ UNCHANGED << secret_key, secret_key_collection, seed_bits, layers,
                    public_token, stored_token, stored_token_bits,
                    actual_length, config, heap, returned, encoded >>

(* Token.add_layer(bit_length, value), lines 541-551. *)
AddLayer(width, value) ==
    /\ Len(layers) < MaxLayers
    /\ layers' = Append(layers, Tuple(<< PyInt(width), value >>))
    /\ last' = Returned("add_layer", PyInt(width), Self)
    /\ UNCHANGED << secret_key, secret_key_collection, seed_bits, random_bits,
                    public_token, stored_token, stored_token_bits,
                    actual_length, config, heap, returned, encoded >>

-----------------------------------------------------------------------------
(* Token.public_token_bit_length(with_padding), lines 596-631.  With layers *)
(* the loop reads layer.positions; the entries add_layer appended are       *)
(* tuples, which have no such attribute: [ok |-> FALSE] is AttributeError.  *)
public_token_bit_length(with_padding) ==
    IF layers # << >> THEN [ok |-> FALSE, v |-> 0]
    ELSE LET total_bits == random_bits
             mod == total_bits % 6
             padded == (IF mod # 0 THEN total_bits + (6 - mod) ELSE total_bits) + 6
         IN  [ok |-> TRUE, v |-> IF with_padding THEN padded ELSE total_bits]

-----------------------------------------------------------------------------
(* Token.encode, lines 335-417.               *)

\* Lines 349-353: the bits of the new stored token, one choice per outcome of
\* os.urandom(self.stored_token_bits // 8); BitCollection() when the width is 0.
NewStoredTokens(bits) ==
    IF bits > 0
    THEN { frombytes(b) : b \in ByteStrings(RandomByteValues, bits \div 8) }
    ELSE { << >> }

\* A Token that keeps one stored and one public token object and refills them
\* on every call.
EncodeObjectsInPlace(h, bits) ==
    IF Len(h) >= 2
    THEN [heap |-> [h EXCEPT ![1] = bits, ![2] = bits], stored |-> 1, public |-> 2]
    ELSE [heap |-> h \o << bits, bits >>, stored |-> Len(h) + 1,
          public |-> Len(h) + 2]

\* Lines 351 and 356: BitCollection.from_bytes builds a new object and
\* copy.deepcopy a second one with the same bits; the objects that exist stay
\* as they are.  The result: the heap and the ids of the two new objects.
EncodeObjects(h, bits) ==
    [heap |-> h \o << bits, bits >>, stored |-> Len(h) + 1, public |-> Len(h) + 2]

Encode(args) ==
    IF stored_token_bits = Unset
    THEN \* line 349: the attribute is set by config() only
         /\ last' = Raised("encode", Tuple(args), "AttributeError")
         /\ UNCHANGED << token, heap, returned, encoded >>
    ELSE /\ Len(heap) + 2 <= MaxObjects
         /\ \E bits \in NewStoredTokens(stored_token_bits.v) :
               LET new == EncodeObjects(heap, bits)
               IN  \* lines 351-356: a new stored token and its deep copy
                   /\ heap' = new.heap
                   /\ stored_token' = Ref(new.stored)
                   /\ public_token' = Ref(new.public)
                   /\ UNCHANGED << secret_key, secret_key_collection, seed_bits,
                                   random_bits, layers, stored_token_bits,
                                   actual_length, config >>
                   /\ IF Len(args) # Len(layers)
                      THEN \* line 360
                           /\ last' = Raised("encode", Tuple(args), "ConfigError")
                           /\ UNCHANGED << returned, encoded >>
                      ELSE IF layers = << >>
                      THEN \* line 364: return self.public_token
                           /\ last' = Returned("encode", Tuple(args), Ref(new.public))
                           /\ returned' = returned \cup { new.public, new.stored }
                           /\ encoded' =
                                 [id |-> new.public, private |-> new.stored,
                                  key |-> secret_key, args |-> args,
                                  settings |-> << seed_bits, random_bits,
                                                  stored_token_bits >>,
                                  b64 |-> FALSE]
                      ELSE \* line 369: layer.positions of a tuple
                           /\ last' = Raised("encode", Tuple(args), "AttributeError")
                           /\ UNCHANGED << returned, encoded >>

-----------------------------------------------------------------------------
(* Token.decode_b64(token, bit_length), lines 694-724.                      *)
(* [outcome |-> "raise"]: re.match raises TypeError on a token that is not  *)
(* text; [outcome |-> "return", value |-> None]: the method returned False. *)
decode_b64(tok, expected) ==
    IF ~Truthy(tok) THEN [outcome |-> "return", value |-> None]
    ELSE IF tok.t # "str" THEN [outcome |-> "raise", value |-> None]
    ELSE IF \E i \in 1..Len(tok.v) : tok.v[i] \notin UrlSafeChars
         THEN [outcome |-> "return", value |-> None]
    ELSE LET i == b64_to_int(tok.v) IN
         IF ~i.ok THEN [outcome |-> "return", value |-> None]
         ELSE IF expected # 0 /\ bit_length(i.v) # expected
              THEN [outcome |-> "return", value |-> None]
         ELSE [outcome |-> "return", value |-> PyInt(i.v)]

\* A decode that leaves its findings in the layer list, as the assignment of
\* line 516 would.
DecodeRewritingLayers(tok, data_type) ==
    /\ last' = Returned("decode", << tok, data_type >>, None)
    /\ layers' = IF layers = << >>
                 THEN << Tuple(<< PyInt(0), PyInt(0) >>) >>
                 ELSE << >>
    /\ UNCHANGED << secret_key, secret_key_collection, seed_bits, random_bits,
                    public_token, stored_token, stored_token_bits,
                    actual_length, config, heap, returned, encoded >>

(* Token.decode(token, data_type), lines 420-517. *)
Decode(tok, data_type) ==
    LET arg == << tok, data_type >>
        length_with_pad == public_token_bit_length(TRUE)
        working_length == public_token_bit_length(FALSE)
        working_token == decode_b64(tok, length_with_pad.v)
    IN
    /\ UNCHANGED << secret_key, secret_key_collection, seed_bits, random_bits,
                    layers, public_token, stored_token_bits, config, heap,
                    returned, encoded >>
    /\ IF data_type # "None" /\ data_type \notin { "base64", "bytes", "hex", "int", "str" }
       THEN \* line 444
            /\ last' = Raised("decode", arg, "ValueError")
            /\ UNCHANGED << stored_token, actual_length >>
       ELSE IF ~length_with_pad.ok
       THEN \* line 451 -> line 615
            /\ last' = Raised("decode", arg, "AttributeError")
            /\ UNCHANGED << stored_token, actual_length >>
       ELSE /\ actual_length' = PyInt(working_length.v)
            /\ IF working_token.outcome = "raise"
               THEN \* line 454 -> line 709
                    /\ last' = Raised("decode", arg, "TypeError")
                    /\ UNCHANGED stored_token
               ELSE IF ~Truthy(working_token.value)
               THEN \* line 456: `return none`
                    /\ last' = Raised("decode", arg, "NameError")
                    /\ UNCHANGED stored_token
               ELSE \* lines 459-466: no layers (with layers line 451 raised)
                    LET masked == working_token.value.v % Pow2(working_length.v) IN
                    /\ stored_token' = PyInt(masked)
                    /\ last' = Returned("decode", arg, PyInt(masked))

-----------------------------------------------------------------------------
(* utils.int_to_b64(i, url_safe=True, strip_padding=True), lines 212-235. *)

\* A packing that puts the highest byte first.
RECURSIVE pack_bigint_big_endian(_)
pack_bigint_big_endian(i) ==
    IF i = 0 THEN << >>
    ELSE pack_bigint_big_endian(i \div 256) \o << i % 256 >>

\* utils.pack_bigint: the bytes of i, lowest first.
RECURSIVE pack_bigint(_)
pack_bigint(i) ==
    IF i = 0 THEN << >> ELSE << i % 256 >> \o pack_bigint(i \div 256)

\* The base64 characters of a bit string, zeros filling the last group.
RECURSIVE Sextets(_)
Sextets(bits) ==
    IF bits = << >> THEN << >>
    ELSE IF Len(bits) < 6
         THEN Sextets(bits \o [ i \in 1..(6 - Len(bits)) |-> 0 ])
    ELSE << B64Alphabet[bitarray_to_int(SubSeq(bits, 1, 6)) + 1] >>
         \o Sextets(SubSeq(bits, 7, Len(bits)))

\* s.replace('+','-').replace('/','_')
UrlSafe(s) ==
    [ i \in 1..Len(s) |-> IF s[i] = "+" THEN "-" ELSE IF s[i] = "/" THEN "_" ELSE s[i] ]

int_to_b64(i) == UrlSafe(Sextets(frombytes(pack_bigint(i))))

\* a | b for the non-negative integers a and b.
RECURSIVE BitOr(_, _)
BitOr(a, b) ==
    IF a = 0 THEN b
    ELSE IF b = 0 THEN a
    ELSE (IF a % 2 = 1 \/ b % 2 = 1 THEN 1 ELSE 0) + 2 * BitOr(a \div 2, b \div 2)

(* Token.encode_b64(token, bit_length), lines 634-663, called on the public   *)
(* token encode left: token = self.public_token.to_int(), bit_length = its    *)
(* number of bits.  A token of 0 is false, so that line 643 takes             *)
(* self.stored_token, a BitCollection, and line 657 raises TypeError on it.   *)
EncodeB64 ==
    /\ public_token.t = "BitCollection"
    /\ Len(heap[public_token.v]) > 0
    /\ LET tok == bitarray_to_int(heap[public_token.v])
           width == Len(heap[public_token.v])
           arg == << PyInt(tok), PyInt(width) >>
           mod == width % 6
           baseline == IF mod # 0 THEN width + (6 - mod) ELSE width
       IN  /\ UNCHANGED << secret_key, secret_key_collection, seed_bits, random_bits,
                           layers, stored_token, stored_token_bits, config, heap,
                           returned >>
           /\ IF tok = 0 /\ ~Truthy(stored_token)
              THEN \* line 645, ahead of the assignment of line 649
                   /\ last' = Returned("encode_b64", arg, None)
                   /\ UNCHANGED << public_token, actual_length, encoded >>
              ELSE IF tok = 0 /\ stored_token.t = "BitCollection"
              THEN \* line 657
                   /\ last' = Raised("encode_b64", arg, "TypeError")
                   /\ actual_length' = PyInt(width)
                   /\ UNCHANGED << public_token, encoded >>
              ELSE \E r \in PaddingValues :
                   LET start == IF tok = 0 THEN stored_token.v ELSE tok
                       padded == BitOr(BitOr(start, r * Pow2(baseline)),
                                       Pow2(baseline + 5))
                       text == int_to_b64(padded)
                   IN  /\ public_token' = PyStr(text)
                       /\ actual_length' = PyInt(width)
                       /\ last' = Returned("encode_b64", arg,
                                           Tuple(<< PyStr(text), stored_token >>))
                       /\ encoded' =
                             [encoded EXCEPT !.b64 = (public_token.v = encoded.id)]

-----------------------------------------------------------------------------
Next ==
    \/ \E cfg \in InitConfigs : TokenInit(cfg)
    \/ \E cfg \in Configs : Config(cfg)
    \/ \E num \in RandomBitsInputs : SetRandomBits(num)
    \/ AddLayer(2, PyInt(1))
    \/ \E args \in ArgTuples(MaxArgs) : Encode(args)
    \/ \E in \in DecodeInputs(encoded.id, public_token) : Decode(in[1], in[2])
    \/ EncodeB64

Spec == Init /\ [][Next]_vars

-----------------------------------------------------------------------------
(* collections.BitCollection: the methods that splice bits in and out.  The *)
(* object they act on is heap[1]; its content is a bitarray, here the      *)
(* sequence of its bits, index 0 first.                                     *)

\* The longest content an object reaches.
MaxBits == 4

\* The most bits one call inserts or extracts.
MaxWidth == 2

\* The highest position handed to a call.
MaxPosition == 3

\* bitarray.insert(i, x) for i >= 0: x lands before index i, at the end when
\* i is past the end.
list_insert(content, i, x) ==
    IF i >= Len(content) THEN Append(content, x)
    ELSE SubSeq(content, 1, i) \o << x >> \o SubSeq(content, i + 1, Len(content))

\* An insertion that takes the bits of b from its last to its first.
RECURSIVE insert_bitarray_last_first(_, _, _)
insert_bitarray_last_first(content, b, positions) ==
    IF positions = << >> THEN content
    ELSE insert_bitarray_last_first(
             list_insert(content, positions[1], b[Len(b)]),
             SubSeq(b, 1, Len(b) - 1), Tail(positions))

\* BitCollection.insert_bitarray, lines 267-280: b[j] goes to positions[j] of
\* the content as the earlier insertions left it.
RECURSIVE insert_bitarray(_, _, _)
insert_bitarray(content, b, positions) ==
    IF positions = << >> THEN content
    ELSE insert_bitarray(list_insert(content, positions[1], b[1]),
                         Tail(b), Tail(positions))

\* BitCollection.insert_int, lines 300-316: bit j of i, (i & (1 << j)) >> j,
\* goes to positions[j].
RECURSIVE insert_int(_, _, _)
insert_int(content, i, positions) ==
    IF positions = << >> THEN content
    ELSE insert_int(list_insert(content, positions[1], i % 2),
                    i \div 2, Tail(positions))

\* The loop of extract_bitarray and extract_int: content.pop(position) per
\* position, in the order given.  pop raises IndexError on a position past the
\* end; the bits popped before that stay popped.  `bits`: the popped bits in
\* the order they were popped.
RECURSIVE pop_each(_, _, _)
pop_each(content, positions, bits) ==
    IF positions = << >>
    THEN [ok |-> TRUE, content |-> content, bits |-> bits]
    ELSE IF positions[1] >= Len(content)
    THEN [ok |-> FALSE, content |-> content, bits |-> bits]
    ELSE pop_each(SubSeq(content, 1, positions[1])
                     \o SubSeq(content, positions[1] + 2, Len(content)),
                  Tail(positions),
                  Append(bits, content[positions[1] + 1]))

\* bitarray.reverse()
reverse(b) == [ i \in 1..Len(b) |-> b[Len(b) + 1 - i] ]

\* An extraction that hands the popped bits back in the order popped.
extract_bitarray_as_popped(content, positions) ==
    LET r == pop_each(content, positions, << >>)
    IN  [ok |-> r.ok, content |-> r.content, value |-> r.bits]

\* BitCollection.extract_bitarray, lines 132-152: the popped bits, reversed.
extract_bitarray(content, positions) ==
    LET r == pop_each(content, positions, << >>)
    IN  [ok |-> r.ok, content |-> r.content, value |-> reverse(r.bits)]

\* BitCollection.extract_int, lines 173-195: output |= bit << j.
extract_int(content, positions) ==
    LET r == pop_each(content, positions, << >>)
    IN  [ok |-> r.ok, content |-> r.content,
         value |-> bitarray_to_int(reverse(r.bits))]

\* Position lists of length n.
Positions(n) == [ 1..n -> 0..MaxPosition ]

\* Bit strings of length n.
BitStrings(n) == ByteStrings({ 0, 1 }, n)

\* The part of the state the BitCollection methods leave alone.
NoToken == << token, returned, encoded >>

\* b.insert(v, positions) with v a BitCollection of content b.
Insert(b, positions) ==
    /\ Len(heap[1]) + Len(positions) <= MaxBits
    /\ heap' = << insert_bitarray(heap[1], b, positions) >>
    /\ last' = Returned("insert",
                        [content |-> heap[1], b |-> b, positions |-> positions],
                        None)
    /\ UNCHANGED NoToken

InsertInt(i, positions) ==
    /\ Len(heap[1]) + Len(positions) <= MaxBits
    /\ heap' = << insert_int(heap[1], i, positions) >>
    /\ last' = Returned("insert_int",
                        [content |-> heap[1], i |-> i, positions |-> positions],
                        None)
    /\ UNCHANGED NoToken

\* b.extract(positions): a new BitCollection of the extracted bits.
Extract(positions) ==
    LET r == extract_bitarray(heap[1], positions)
        arg == [content |-> heap[1], positions |-> positions]
    IN  /\ heap' = << r.content >>
        /\ last' = IF r.ok THEN Returned("extract", arg, Tuple(r.value))
                   ELSE Raised("extract", arg, "IndexError")
        /\ UNCHANGED NoToken

ExtractInt(positions) ==
    LET r == extract_int(heap[1], positions)
        arg == [content |-> heap[1], positions |-> positions]
    IN  /\ heap' = << r.content >>
        /\ last' = IF r.ok THEN Returned("extract_int", arg, PyInt(r.value))
                   ELSE Raised("extract_int", arg, "IndexError")
        /\ UNCHANGED NoToken

\* BitCollection.from_int(i, bits), lines 88-100: a new object, which takes
\* the place of the one at hand.
FromInt(i, bits) ==
    /\ heap' = << int_to_bitarray(i, bits) >>
    /\ last' = Returned("from_int", << i, bits >>, Ref(1))
    /\ UNCHANGED NoToken

-----------------------------------------------------------------------------
(* tokens.TokenLayer: the constructor and the two conversions.  The         *)
(* constructor never returns (see TokenLayer above), so the instances the   *)
(* conversions are called on are given by their attributes: type, bits,     *)
(* length and value, the attributes the two methods read.                   *)

\* A bytes object: its byte values.
PyBytes(b) == [t |-> "bytes", v |-> b]

\* A bytes object of ASCII text, as binascii.hexlify returns: its characters.
PyBytesText(chars) == [t |-> "bytes-text", v |-> chars]

HexDigits ==
    << "0","1","2","3","4","5","6","7","8","9","a","b","c","d","e","f" >>

\* bitarray.tobytes: zeros fill the last byte.
RECURSIVE tobytes(_)
tobytes(b) ==
    IF b = << >> THEN << >>
    ELSE IF Len(b) < 8 THEN tobytes(b \o [ i \in 1..(8 - Len(b)) |-> 0 ])
    ELSE << bitarray_to_int(SubSeq(b, 1, 8)) >> \o tobytes(SubSeq(b, 9, Len(b)))

\* binascii.hexlify: two digits per byte.
RECURSIVE hexlify(_)
hexlify(bs) ==
    IF bs = << >> THEN << >>
    ELSE << HexDigits[(bs[1] \div 16) + 1], HexDigits[(bs[1] % 16) + 1] >>
         \o hexlify(Tail(bs))

\* binascii.unhexlify accepts the text: an even number of hex digits.
Unhexable(chars) ==
    /\ Len(chars) % 2 = 0
    /\ \A i \in 1..Len(chars) :
          \E k \in 1..16 : HexDigits[k] = chars[i]

\* int.bit_length(): that of the absolute value.
py_bit_length(n) == bit_length(IF n < 0 THEN 0 - n ELSE n)

\* TokenLayer.to_bitcollection(v), lines 143-178, for the types int, bytes
\* and hex: what the call ends with and the content of the BitCollection it
\* returns.  BitCollection.from_hex gets None from utils.hex_to_bitarray
\* (bitarray().frombytes(...) returns None), so its content is empty;
\* binascii.Error, which unhexlify raises, is a ValueError.
to_bitcollection(layer, v) ==
    LET raise == [outcome |-> "raise", exc |-> "ValueError", value |-> << >>]
        return(bits) == [outcome |-> "return", exc |-> "none", value |-> bits]
    IN  CASE layer.type = "int" ->
               IF v.t # "int" THEN raise
               ELSE IF py_bit_length(v.v) > layer.bits THEN raise
               ELSE return(int_to_bitarray(v.v, layer.bits))
          [] layer.type = "bytes" ->
               IF v.t # "bytes" THEN raise
               ELSE IF Len(v.v) # layer.length THEN raise
               ELSE return(frombytes(v.v))
          [] layer.type = "hex" ->
               IF v.t # "str" THEN raise
               ELSE IF Len(v.v) # layer.length THEN raise
               ELSE IF ~Unhexable(v.v) THEN raise
               ELSE return(<< >>)

\* TokenLayer.from_bitcollection(b), lines 181-195, b given by its content.
\* int('', 2), which to_int comes to on an empty content, raises ValueError.
from_bitcollection(layer, b) ==
    LET return(x) == [outcome |-> "return", exc |-> "none", value |-> x]
    IN  IF ~Truthy(layer.value) THEN return(None)
        ELSE CASE layer.type = "int" ->
                    IF b = << >>
                    THEN [outcome |-> "raise", exc |-> "ValueError", value |-> None]
                    ELSE return(PyInt(bitarray_to_int(b)))
               [] layer.type = "bytes" -> return(PyBytes(tobytes(b)))
               [] layer.type = "hex" -> return(PyBytesText(hexlify(tobytes(b))))

\* TokenLayer instances: an int layer of 2 bits, a bytes layer of 1 byte and a
\* hex layer of 2 characters, each with value as __init__ leaves it (None)
\* and with value set by the caller.
LayerObjects ==
    { [type |-> ty[1], bits |-> ty[2], length |-> ty[3], value |-> val] :
         ty \in { << "int", 2, 2 >>, << "bytes", 8, 1 >>, << "hex", 8, 2 >> },
         val \in { None, PyInt(1) } }

\* Values handed to to_bitcollection.
MarshalValues ==
    { PyInt(0 - 1), PyInt(1), PyInt(3), PyInt(4),
      PyBytes(<< 165 >>), PyBytes(<< 165, 0 >>),
      PyStr(<< "a", "5" >>), PyStr(<< "a" >>), PyStr(<< "a", "g" >>) }

\* Dicts handed to TokenLayer besides LayerDicts: positions of the wrong
\* length, hex and bytes layers by length and by bits, an int layer without
\* bits.
LayerDict(type, bits, length, positions) ==
    [type |-> type, bits |-> bits, length |-> length, positions |-> positions]

LayerInputs ==
    LayerDicts
    \cup { LayerDict("int", PyInt(2), None, Tuple(<< 0 >>)),
           LayerDict("int", None, None, None),
           LayerDict("hex", None, PyInt(2), None),
           LayerDict("hex", PyInt(8), None, None),
           LayerDict("hex", PyInt(6), None, None),
           LayerDict("bytes", None, PyInt(1), None),
           LayerDict("bytes", PyInt(8), None, None),
           LayerDict("bytes", PyInt(4), None, None) }

\* TokenLayer(d), lines 27-140.
NewTokenLayer(d) ==
    /\ last' = Raised("TokenLayer", d, TokenLayer(d))
    /\ UNCHANGED << heap, NoToken >>

ToBitCollection(layer, v) ==
    LET r == to_bitcollection(layer, v)
        arg == [layer |-> layer, v |-> v]
    IN  /\ last' = IF r.outcome = "return"
                   THEN Returned("to_bitcollection", arg, Tuple(r.value))
                   ELSE Raised("to_bitcollection", arg, r.exc)
        /\ UNCHANGED << heap, NoToken >>

FromBitCollection(layer, b) ==
    LET r == from_bitcollection(layer, b)
        arg == [layer |-> layer, b |-> b]
    IN  /\ last' = IF r.outcome = "return"
                   THEN Returned("from_bitcollection", arg, r.value)
                   ELSE Raised("from_bitcollection", arg, r.exc)
        /\ UNCHANGED << heap, NoToken >>

-----------------------------------------------------------------------------
(* collections.SecretKeyCollection.chunk(n), lines 442-482. *)

\* The most chunks asked for.
MaxChunks == 3

\* int.from_bytes(sha256(group).digest()[0:4], 'big'): the value is kept as
\* the term it is computed from, a function of the bytes of the group.
Sha256Head(group) == [t |-> "sha256[0:4]", v |-> group]

\* Lines 452-457: total_bytes // n, one more when the division is inexact.
chunk_size(total_bytes, n) ==
    (total_bytes \div n) + (IF total_bytes % n # 0 THEN 1 ELSE 0)

\* Lines 460-482: n groups of up to `size` bytes are taken off the front of
\* the bytes left; a group ends early when none are left.
RECURSIVE chunk_groups(_, _, _)
chunk_groups(bytes_, n, size) ==
    IF n = 0 THEN << >>
    ELSE LET take == IF size < Len(bytes_) THEN size ELSE Len(bytes_)
         IN  << Sha256Head(SubSeq(bytes_, 1, take)) >>
             \o chunk_groups(SubSeq(bytes_, take + 1, Len(bytes_)), n - 1, size)

\* chunk without the increment of lines 456-457.
chunk_floored(content, n) ==
    chunk_groups(tobytes(content), n, (Len(content) \div 8) \div n)

\* list(key.chunk(n)) for n >= 1, the key given by its content.
chunk(content, n) ==
    chunk_groups(tobytes(content), n, chunk_size(Len(content) \div 8, n))

\* Secret keys: ' ', '@', 's1' and 'abcde'.
KeyTexts == { << 32 >>, << 64 >>, << 115, 49 >>, << 97, 98, 99, 100, 101 >> }

\* SecretKeyCollection(s), lines 419-439.
NewSecretKeyCollection(s) ==
    /\ last' = Returned("SecretKeyCollection", PyStr(s),
                        Tuple(SecretKeyCollection(s)))
    /\ UNCHANGED << heap, NoToken >>

\* list(SecretKeyCollection(s).chunk(n)); n = 0 divides by zero at line 453.
Chunk(s, n) ==
    LET arg == [key |-> s, n |-> n] IN
    /\ last' = IF n = 0 THEN Raised("chunk", arg, "ZeroDivisionError")
               ELSE Returned("chunk", arg, Tuple(chunk(SecretKeyCollection(s), n)))
    /\ UNCHANGED << heap, NoToken >>

-----------------------------------------------------------------------------
(* The collections and the layers on their own: one BitCollection, heap[1], *)
(* and calls of the methods above with arguments from small sets.  The      *)
(* Token is left as it is built.                                            *)

BitInit ==
    /\ secret_key = None
    /\ secret_key_collection = Unset
    /\ seed_bits = 4
    /\ random_bits = 512
    /\ layers = << >>
    /\ public_token = None
    /\ stored_token = None
    /\ stored_token_bits = Unset
    /\ actual_length = Unset
    /\ config = FALSE
    /\ heap \in { << b >> : b \in UNION { BitStrings(n) : n \in 0..MaxWidth } }
    /\ last = Returned("BitCollection", heap[1], Ref(1))
    /\ returned = {}
    /\ encoded = NoEncode

BitNext ==
    \/ \E n \in 1..MaxWidth : \E b \in BitStrings(n) : \E positions \in Positions(n) :
          Insert(b, positions)
    \/ \E n \in 1..MaxWidth : \E i \in 0..(Pow2(n) - 1) : \E positions \in Positions(n) :
          InsertInt(i, positions)
    \/ \E n \in 1..MaxWidth : \E positions \in Positions(n) : Extract(positions)
    \/ \E n \in 1..MaxWidth : \E positions \in Positions(n) : ExtractInt(positions)
    \/ \E bits \in 0..MaxBits : \E i \in 0..Pow2(MaxWidth + 1) : FromInt(i, bits)
    \/ \E d \in LayerInputs : NewTokenLayer(d)
    \/ \E layer \in LayerObjects : \E v \in MarshalValues : ToBitCollection(layer, v)
    \/ \E layer \in LayerObjects :
          \E b \in { << >>, << 0, 1 >>, frombytes(<< 165 >>) } :
             FromBitCollection(layer, b)
    \/ \E s \in KeyTexts : NewSecretKeyCollection(s)
    \/ \E s \in KeyTexts : \E n \in 0..MaxChunks : Chunk(s, n)

BitSpec == BitInit /\ [][BitNext]_vars

-----------------------------------------------------------------------------
(* random.MT19937.rand_int and Token.generate_bit_positions.  The twister   *)
(* itself is not computed: extract_number ends with _int32(y), line 41, so  *)
(* what it returns is some number in 0..0xFFFFFFFF, and the generator that  *)
(* MT19937(seed) builds is kept as the sequence of numbers it will return.  *)

\* The largest endpoint and the largest max_position.
MaxEndpoint == 2

\* The most positions asked for.
MaxDraws == 2

\* 0x10000.  A 32-bit number r is kept as its halves, r = hi * Half + lo, so
\* that no product leaves the range of the integers at hand.
Half == 65536

Raw(hi, lo) == [hi |-> hi, lo |-> lo]

\* The numbers extract_number returns here: 0, 1, 0x55555555 (a third of
\* 0xFFFFFFFF), 0x80000000 and 0xFFFFFFFF.
RawOutputs ==
    { Raw(0, 0), Raw(0, 1), Raw(21845, 21845), Raw(32768, 0), Raw(65535, 65535) }

\* k * 0xFFFFFFFF <= r * diff, for 0 <= k <= diff < Half; k * 0xFFFFFFFF is
\* (k * Half - 1) * Half + (Half - k).
AtLeast(r, diff, k) ==
    LET low == r.lo * diff
        high == r.hi * diff + (low \div Half)
    IN  \/ k = 0
        \/ high > k * Half - 1
        \/ high = k * Half - 1 /\ low % Half >= Half - k

\* math.floor(r * mult) with mult = diff / 0xFFFFFFFF, lines 68-69.  Python
\* computes the product in floating point; for the numbers and the endpoints
\* drawn here its floor is that of the exact quotient r * diff / 0xFFFFFFFF.
Scaled(r, diff) ==
    CHOOSE k \in 0..diff :
        AtLeast(r, diff, k) /\ (k = diff \/ ~AtLeast(r, diff, k + 1))

\* A rand_int that hands the scaled number back as it is.
rand_int_unclamped(r, endpoint1, endpoint2) ==
    LET low == IF endpoint1 < endpoint2 THEN endpoint1 ELSE endpoint2
        high == IF endpoint1 < endpoint2 THEN endpoint2 ELSE endpoint1
    IN  Scaled(r, high - low + 1) + low

\* MT19937.rand_int(endpoint1, endpoint2), lines 56-69, r being what
\* extract_number returns at line 65.
rand_int(r, endpoint1, endpoint2) ==
    LET low == IF endpoint1 < endpoint2 THEN endpoint1 ELSE endpoint2
        high == IF endpoint1 < endpoint2 THEN endpoint2 ELSE endpoint1
        diff == high - low + 1
        scaled == Scaled(r, diff) + low
    IN  IF scaled < high THEN scaled ELSE high

\* A generator of positions whose bound grows by one with every draw.
generate_bit_positions_growing(seed, max_position, bits) ==
    [ i \in 1..bits |-> rand_int(seed[i], 0, max_position + (i - 1)) ]

\* Token.generate_bit_positions(seed, max_position, bits), lines 666-691:
\* one generator, `bits` calls of rand_int(0, max_position).  seed: the
\* numbers MT19937(seed) returns, in order.
generate_bit_positions(seed, max_position, bits) ==
    [ i \in 1..bits |-> rand_int(seed[i], 0, max_position) ]

\* The generators: what they return in their first MaxDraws calls.
Seeds == ByteStrings(RawOutputs, MaxDraws)

RandInt(r, endpoint1, endpoint2) ==
    /\ last' = Returned("rand_int", << r, endpoint1, endpoint2 >>,
                        PyInt(rand_int(r, endpoint1, endpoint2)))
    /\ UNCHANGED << heap, NoToken >>

GenerateBitPositions(seed, max_position, bits) ==
    /\ last' = Returned("generate_bit_positions",
                        [seed |-> seed, max_position |-> max_position,
                         bits |-> bits],
                        Tuple(generate_bit_positions(seed, max_position, bits)))
    /\ UNCHANGED << heap, NoToken >>

RandNext ==
    \/ \E r \in RawOutputs :
          \E endpoint1 \in (0 - 1)..MaxEndpoint :
             \E endpoint2 \in (0 - 1)..MaxEndpoint :
                RandInt(r, endpoint1, endpoint2)
    \/ \E seed \in Seeds :
          \E max_position \in 0..MaxEndpoint :
             \E bits \in 0..MaxDraws :
                GenerateBitPositions(seed, max_position, bits)

RandSpec == Init /\ [][RandNext]_vars

-----------------------------------------------------------------------------
(* The integer helpers of utils.py: insert_bits and extract_bits, which      *)
(* splice single bits into and out of a Python integer.                      *)

\* Largest source integer and longest position list tried.
MaxSource == 1
MaxSplice == 3

\* a ^ b for b >= 0; a may be negative (Python integers are two's complement
\* with unbounded sign extension).
RECURSIVE BitXor(_, _)
BitXor(a, b) ==
    IF b = 0 THEN a
    ELSE ((a + b) % 2) + 2 * BitXor(a \div 2, b \div 2)

\* The loop of insert_bits, lines 148-162, from index i on; length is carried
\* from turn to turn.
RECURSIVE insert_bits_from(_, _, _, _, _)
insert_bits_from(source, insert, positions, i, length) ==
    IF i = Len(positions) THEN source
    ELSE
        LET position == positions[i + 1]
            longer == IF length < position THEN position ELSE length
            bottom_mask == Pow2(position) - 1
            top_mask == BitXor(Pow2(longer + i + 1) - 1, bottom_mask)
            insert_bit == BitAnd(Pow2(i), insert) \div Pow2(i)
            opened == BitOr(BitAnd(top_mask, source) * 2,
                            BitAnd(source, bottom_mask))
        IN  insert_bits_from(BitOr(opened, insert_bit * Pow2(position)),
                             insert, positions, i + 1, longer)

\* utils.insert_bits(source, insert, positions), lines 126-165.
insert_bits(source, insert, positions) ==
    insert_bits_from(source, insert, positions, 0, bit_length(source))

\* The loop of extract_bits, lines 195-206, from index i on.  length is the
\* bit length of the source the function was called with and is never
\* updated; 2**(length - i + 1) is a float once the exponent is negative, and
\* float ^ int raises TypeError (line 199).
RECURSIVE extract_bits_from(_, _, _, _, _)
extract_bits_from(source, positions, i, length, extracted) ==
    IF i = Len(positions)
    THEN [exc |-> "none", source |-> source, extracted |-> extracted]
    ELSE IF length - i + 1 < 0
    THEN [exc |-> "TypeError", source |-> source, extracted |-> extracted]
    ELSE
        LET position == positions[i + 1]
            positions_length == Len(positions) - 1
            bottom_mask == Pow2(position) - 1
            top_mask == BitXor((Pow2(length - i + 1) - 1) - Pow2(position),
                               bottom_mask)
            prize_bit == BitAnd(Pow2(position), source) \div Pow2(position)
        IN  extract_bits_from(BitOr(BitAnd(top_mask, source) \div 2,
                                    BitAnd(source, bottom_mask)),
                              positions, i + 1, length,
                              BitOr(extracted,
                                    prize_bit * Pow2(positions_length - i)))

\* utils.extract_bits(source, positions), lines 168-209.
extract_bits(source, positions) ==
    extract_bits_from(source, positions, 0, bit_length(source), 0)

\* Position lists of length n that insert_bits can follow on a source of
\* bit length width without leaving it: the j-th position is at most the
\* length the source has after j - 1 insertions.
SplicePositions(width, n) ==
    { P \in [1..n -> 0..(width + n - 1)] :
         \A j \in 1..n : P[j] <= width + (j - 1) }

InsertBits(source, insert, positions) ==
    /\ last' = Returned("insert_bits",
                        [source |-> source, insert |-> insert,
                         positions |-> positions],
                        PyInt(insert_bits(source, insert, positions)))
    /\ UNCHANGED << heap, NoToken >>

\* extract_bits called on the integer insert_bits has just returned, with the
\* positions of the insertion: reversed, as decode passes them (tokens.py
\* 470-473), or as they are.
ExtractBits(reversed) ==
    /\ last.op = "insert_bits"
    /\ LET positions == IF reversed THEN reverse(last.arg.positions)
                        ELSE last.arg.positions
           arg == [source |-> last.value.v, positions |-> positions,
                   spliced |-> last.arg]
           r == extract_bits(last.value.v, positions)
       IN  last' = IF r.exc = "none"
                   THEN Returned("extract_bits", arg,
                                 Tuple(<< PyInt(r.source), PyInt(r.extracted) >>))
                   ELSE Raised("extract_bits", arg, r.exc)
    /\ UNCHANGED << heap, NoToken >>

SpliceNext ==
    \/ \E source \in 0..MaxSource :
          \E n \in 0..MaxSplice :
             \E positions \in SplicePositions(bit_length(source), n) :
                \E insert \in 0..(Pow2(n) - 1) :
                   InsertBits(source, insert, positions)
    \/ \E reversed \in BOOLEAN : ExtractBits(reversed)

SpliceSpec == Init /\ [][SpliceNext]_vars

-----------------------------------------------------------------------------
(* Vocabulary of the properties. *)

\* A configuration the documentation calls valid: a secret key and layers of
\* a listed type.
ValidConfig(cfg) ==
    /\ cfg # EmptyDict
    /\ Truthy(ConfigSecret(cfg))
    /\ \A i \in 1..Len(cfg.layers) : cfg.layers[i].type \in TYPES

\* Every layer of the configuration carries explicit positions.
ExplicitOnly(cfg) ==
    /\ cfg.layers # << >>
    /\ \A i \in 1..Len(cfg.layers) : Truthy(cfg.layers[i].positions)

\* The last call was encode and it returned.
EncodeReturned == last.op = "encode" /\ last.outcome = "return"

\* The settings of the Token are those of the last encode that returned.
SameSettings ==
    /\ layers = << >>
    /\ << seed_bits, random_bits, stored_token_bits >> = encoded.settings

\* The last call was decode, of the public token the last encode returned:
\* the object itself or the base64 text encode_b64 made of it.
DecodedEncoded ==
    /\ last.op = "decode"
    /\ encoded.id # 0
    /\ \/ last.arg[1] = Ref(encoded.id)
       \/ encoded.b64 /\ public_token.t = "str" /\ last.arg[1] = public_token

\* The layer values a decode result carries: a bare private token has none.
LayerValues(value) ==
    IF value.t = "tuple" THEN Tail(value.v) ELSE << >>

\* The private token a decode result carries, as an integer.
PrivateToken(value) ==
    IF value.t = "tuple" THEN Head(value.v) ELSE value

\* Attribute x on heap h and attribute y on heap g have the same value: the
\* same bits when they refer to objects.
SameValue(x, h, y, g) ==
    IF x.t # y.t THEN FALSE
    ELSE IF x.t = "BitCollection" THEN h[x.v] = g[y.v]
    ELSE x = y

-----------------------------------------------------------------------------
(* C1: round trip.  A Token takes every valid configuration, by the          *)
(* constructor or by config; encode of one value per layer then returns;     *)
(* and decode of the public token that encode returned, under the same       *)
(* settings and key, returns the private token encode made and the encoded   *)
(* layer values in order.                                                    *)
C1_RoundTrip ==
    /\ (last.op \in { "Token", "config" } /\ ValidConfig(last.arg))
          => last.outcome = "return"
    /\ (last.op = "encode" /\ stored_token_bits # Unset
           /\ Len(last.arg.v) = Len(layers))
          => last.outcome = "return"
    /\ (DecodedEncoded /\ SameSettings /\ secret_key = encoded.key)
          => /\ last.outcome = "return"
             /\ PrivateToken(last.value)
                   = PyInt(bitarray_to_int(heap[encoded.private]))
             /\ LayerValues(last.value) = encoded.args

(* C2: length invariant.  After an encode that returned, the public token    *)
(* has as many bits as the configured private-token width plus the widths    *)
(* of the layers (none are left when encode returns), and                    *)
(* public_token_bit_length without padding returns that number.              *)
C2_LengthInvariant ==
    EncodeReturned =>
        LET n == Len(heap[last.value.v]) IN
        /\ n = stored_token_bits.v
        /\ public_token_bit_length(FALSE) = [ok |-> TRUE, v |-> n]

(* C3: wrong secret key.  Decoding, under settings that differ from those of *)
(* the encode in the secret key only, the public token that encode returned  *)
(* does not return the encoded layer values: it fails, or a returned value   *)
(* differs.                                                                  *)
C3_WrongSecretKey ==
    (DecodedEncoded /\ SameSettings /\ secret_key # encoded.key)
       => \/ last.outcome = "raise"
          \/ last.value = None
          \/ LayerValues(last.value) # encoded.args

(* C4: no layers.  With zero layers encode returns a public token whose bits *)
(* are those of the private token it generated, and decode of that token     *)
(* returns exactly that private token and no layer values.                   *)
C4_NoLayers ==
    /\ (EncodeReturned /\ layers = << >>)
          => heap[public_token.v] = heap[stored_token.v]
    /\ (DecodedEncoded /\ SameSettings /\ secret_key = encoded.key)
          => /\ last.outcome = "return"
             /\ last.value = PyInt(bitarray_to_int(heap[encoded.private]))

(* C5: explicit positions.  A configuration whose layers all carry explicit  *)
(* positions is taken under any secret key and leaves one layer per row, the *)
(* layers that encode and decode then place at the fixed positions.          *)
C5_ExplicitPositions ==
    (last.op = "config" /\ ValidConfig(last.arg) /\ ExplicitOnly(last.arg))
       => /\ last.outcome = "return"
          /\ Len(layers) = Len(last.arg.layers)

(* C6: generated private token.  The private token that encode generates has *)
(* exactly the configured private-token bit width, widths that are not a     *)
(* multiple of 8 included.                                                   *)
C6_PrivateTokenWidth ==
    EncodeReturned => Len(heap[stored_token.v]) = stored_token_bits.v

(* C7: argument count.  encode does not reject a call with as many arguments *)
(* as there are layers, or with exactly one more; it raises on every other   *)
(* argument count.                                                           *)
C7_ArgumentCount ==
    last.op = "encode" =>
        LET given == Len(last.arg.v)
            accepted == { Len(layers), Len(layers) + 1 }
        IN  /\ given \in accepted
                  => ~(last.outcome = "raise" /\ last.exc = "ConfigError")
            /\ given \notin accepted => last.outcome = "raise"

(* C8: decode failures are values.  Without layers, decode of a text that is *)
(* empty, malformed or of the wrong length does not raise: it returns the    *)
(* "no result" value, which is not a private token.                          *)
C8_DecodeFailureIsValue ==
    (/\ last.op = "decode"
     /\ last.arg[2] = "None"
     /\ last.arg[1].t = "str"
     /\ layers = << >>
     /\ ~Truthy(decode_b64(last.arg[1], public_token_bit_length(TRUE).v).value))
       => last.outcome = "return" /\ last.value.t \notin { "int", "tuple" }

(* C9: a failed encode changes nothing.  An encode call that raises leaves   *)
(* the layers, the secret key, the seed bits, the stored private token and   *)
(* the public token of the Token with the values they had before the call.   *)
C9_FailedEncodeFrame ==
    [][(last'.op = "encode" /\ last'.outcome = "raise")
          => /\ layers' = layers
             /\ secret_key' = secret_key
             /\ seed_bits' = seed_bits
             /\ SameValue(stored_token', heap', stored_token, heap)
             /\ SameValue(public_token', heap', public_token, heap)]_vars

InRange(content, positions) ==
    \A j \in 1..Len(positions) : positions[j] <= Len(content) + (j - 1)

(* C12: insert then extract at the same positions.  After b is inserted at   *)
(* positions that are in range, extract with the same position list, taken   *)
(* in the same order, returns b and leaves the content as it was before the  *)
(* insert.                                                                   *)
C12_InsertThenExtract ==
    (last.op = "insert" /\ InRange(last.arg.content, last.arg.positions))
       => LET r == extract_bitarray(heap[1], last.arg.positions)
          IN  r.ok /\ r.value = last.arg.b /\ r.content = last.arg.content

(* C12, amended: after b is inserted at positions that are in range, extract *)
(* with the position list reversed, the last inserted bit popped first,      *)
(* returns b and leaves the content as it was before the insert.             *)
C12_InsertThenExtractReversed ==
    (last.op = "insert" /\ InRange(last.arg.content, last.arg.positions))
       => LET r == extract_bitarray(heap[1], reverse(last.arg.positions))
          IN  r.ok /\ r.value = last.arg.b /\ r.content = last.arg.content

\* Two different bits have been inserted at increasing positions in front of
\* a content of two bits: the second insertion moved what follows the first.
C12_Witness ==
    /\ last.op = "insert"
    /\ last.arg.positions = << 0, 1 >>
    /\ last.arg.b = << 1, 0 >>
    /\ Len(last.arg.content) = 2
    /\ Len(heap[1]) = 4

(* C13: least-significant bit first.  insert_int(v, positions) leaves the    *)
(* content that insert(from_int(v, n), positions) leaves, n the number of    *)
(* positions and v < 2^n.                                                    *)
C13_InsertIntAsInsert ==
    (last.op = "insert_int" /\ last.arg.i < Pow2(Len(last.arg.positions)))
       => heap[1] = insert_bitarray(last.arg.content,
                                    int_to_bitarray(last.arg.i,
                                                    Len(last.arg.positions)),
                                    last.arg.positions)

(* C14: integer round trip.  For a width b >= 1 and 0 <= v < 2^b,            *)
(* from_int(v, bits=b) has exactly b bits and its to_int() is v.             *)
C14_IntRoundTrip ==
    (/\ last.op = "from_int"
     /\ last.arg[2] >= 1
     /\ last.arg[1] >= 0
     /\ last.arg[1] < Pow2(last.arg[2]))
       => Len(heap[1]) = last.arg[2] /\ bitarray_to_int(heap[1]) = last.arg[1]

\* from_int(5, bits=3) has been called and left the bits 101.
C14_Witness ==
    /\ last.op = "from_int"
    /\ last.arg = << 5, 3 >>
    /\ heap[1] = << 1, 0, 1 >>

(* C15: explicit positions.  A layer dict of a valid type whose 'positions'  *)
(* list has as many entries as the layer has bits is accepted: TokenLayer    *)
(* returns; a list of any other length makes TokenLayer raise ConfigError.   *)
C15_PositionsChecked ==
    (/\ last.op = "TokenLayer"
     /\ last.arg.type \in TYPES
     /\ last.arg.bits.t = "int"
     /\ last.arg.positions.t = "tuple")
       => IF Len(last.arg.positions.v) = last.arg.bits.v
          THEN last.outcome = "return"
          ELSE last.outcome = "raise" /\ last.exc = "ConfigError"

\* What the width rules make of a dict without positions: a hex layer takes
\* 4 bits a character, a bytes layer 8 bits a byte, an int layer needs bits.
WidthRule(d) ==
    LET unit == IF d.type = "hex" THEN 4 ELSE 8
    IN  IF d.type = "int"
        THEN IF d.bits.t = "int" THEN "return" ELSE "ConfigError"
        ELSE IF d.bits.t = "int"
             THEN IF d.bits.v % unit = 0 THEN "return" ELSE "ConfigError"
             ELSE "return"

(* C16: layer width derivation.  TokenLayer accepts a hex layer given by its *)
(* length, accepts one given by bits exactly when bits is divisible by 4,    *)
(* accepts a bytes layer given by its length, accepts one given by bits      *)
(* exactly when bits is divisible by 8, and raises ConfigError for an int    *)
(* layer without bits.                                                       *)
C16_WidthDerivation ==
    (/\ last.op = "TokenLayer"
     /\ last.arg.type \in { "int", "bytes", "hex" }
     /\ last.arg.positions.t # "tuple"
     /\ (last.arg.bits.t = "int" \/ last.arg.length.t = "int"
           \/ last.arg.type = "int"))
       => IF WidthRule(last.arg) = "return"
          THEN last.outcome = "return"
          ELSE last.outcome = "raise" /\ last.exc = "ConfigError"

(* C17: unmarshal inverts marshal.  For every layer and every value v that   *)
(* to_bitcollection accepts, from_bitcollection of the returned bits returns *)
(* a value of the type of v with the content of v.                           *)
C17_UnmarshalInvertsMarshal ==
    (last.op = "to_bitcollection" /\ last.outcome = "return")
       => LET r == from_bitcollection(last.arg.layer, last.value.v)
          IN  /\ r.outcome = "return"
              /\ r.value.t = last.arg.v.t
              /\ r.value.v = last.arg.v.v

\* The value is of the layer's external type and fits it: an unsigned integer
\* of at most `bits` bits, or bytes or text of the declared length.
Fits(layer, v) ==
    CASE layer.type = "int" ->
           v.t = "int" /\ v.v >= 0 /\ v.v < Pow2(layer.bits)
      [] layer.type = "bytes" -> v.t = "bytes" /\ Len(v.v) = layer.length
      [] layer.type = "hex" -> v.t = "str" /\ Len(v.v) = layer.length

(* C18: marshal rejects what does not fit.  to_bitcollection raises          *)
(* ValueError for a value of the wrong type, for an integer that is negative *)
(* or not below 2^bits, and for bytes or hex text of the wrong length; it    *)
(* returns only for a value that fits.                                       *)
C18_MarshalRejects ==
    (last.op = "to_bitcollection" /\ ~Fits(last.arg.layer, last.arg.v))
       => last.outcome = "raise" /\ last.exc = "ValueError"

(* C19: secret-key compaction.  The content of a SecretKeyCollection built   *)
(* from c characters is a multiple of 8 bits long and is zero padding        *)
(* followed by c groups of 6 bits, one per character from the last character *)
(* to the first, the group of a character being (code - 32) reduced to its   *)
(* low 6 bits.                                                               *)
C19_KeyCompaction ==
    last.op = "SecretKeyCollection"
       => LET codes == last.arg.v
              content == last.value.v
              c == Len(codes)
              pad == Len(content) - 6 * c
          IN  /\ Len(content) % 8 = 0
              /\ pad \in 0..7
              /\ \A i \in 1..pad : content[i] = 0
              /\ \A k \in 1..c :
                    SubSeq(content, pad + 6 * (k - 1) + 1, pad + 6 * k)
                       = int_to_bitarray((codes[c + 1 - k] - 32) % 64, 6)

\* The bytes of a sequence of groups, in order.
RECURSIVE GroupBytes(_)
GroupBytes(groups) ==
    IF groups = << >> THEN << >>
    ELSE groups[1].v \o GroupBytes(Tail(groups))

(* C20: chunk(n) yields n values, value i taken from the i-th contiguous     *)
(* group of the key's bytes; the groups in order are the key's bytes, every  *)
(* group but the last holds exactly chunk_size bytes, and no group is empty  *)
(* when n is at most the number of bytes.                                    *)
C20_ChunkGroups ==
    (last.op = "chunk" /\ last.outcome = "return")
       => LET groups == last.value.v
              n == last.arg.n
              bytes_ == tobytes(SecretKeyCollection(last.arg.key))
              size == chunk_size(Len(bytes_), n)
          IN  /\ Len(groups) = n
              /\ \A i \in 1..Len(groups) : groups[i].t = "sha256[0:4]"
              /\ GroupBytes(groups) = bytes_
              /\ \A i \in 1..(Len(groups) - 1) : Len(groups[i].v) = size
              /\ n <= Len(bytes_)
                    => \A i \in 1..Len(groups) : groups[i].v # << >>

(* C20, amended: chunk(n) yields n values, value i taken from the i-th       *)
(* contiguous group of the key's bytes; the groups in order are the key's    *)
(* bytes, no group holds more than chunk_size bytes, and a group that is     *)
(* followed by a group that is not empty holds exactly chunk_size bytes.     *)
C20_ChunkGroupsExhausting ==
    (last.op = "chunk" /\ last.outcome = "return")
       => LET groups == last.value.v
              n == last.arg.n
              bytes_ == tobytes(SecretKeyCollection(last.arg.key))
              size == chunk_size(Len(bytes_), n)
          IN  /\ Len(groups) = n
              /\ \A i \in 1..Len(groups) : groups[i].t = "sha256[0:4]"
              /\ GroupBytes(groups) = bytes_
              /\ \A i \in 1..Len(groups) : Len(groups[i].v) <= size
              /\ \A i \in 1..(Len(groups) - 1) :
                    groups[i + 1].v # << >> => Len(groups[i].v) = size

\* chunk(3) of the key 'abcde', 4 bytes: two groups of 2 bytes and an empty one.
C20_Witness ==
    /\ last.op = "chunk"
    /\ last.outcome = "return"
    /\ last.arg.key = << 97, 98, 99, 100, 101 >>
    /\ last.arg.n = 3
    /\ Len(last.value.v[1].v) = 2
    /\ Len(last.value.v[2].v) = 2
    /\ last.value.v[3].v = << >>

\* The number of layers of a config that carry no positions.
AutoSeeded(cfg) ==
    Cardinality({ i \in 1..Len(cfg.layers) : ~Truthy(cfg.layers[i].positions) })

(* C21: short secret key.  A config whose secret key has fewer characters    *)
(* than it has layers without explicit positions is rejected with            *)
(* ConfigError, by the constructor and by config, so that no Token holds     *)
(* such a key and such layers.                                               *)
C21_ShortKeyRejected ==
    (/\ last.op \in { "Token", "config" }
     /\ Truthy(ConfigSecret(last.arg))
     /\ Len(ConfigSecret(last.arg).v) < AutoSeeded(last.arg))
       => last.outcome = "raise" /\ last.exc = "ConfigError"

(* C24: seed-bit width 0.  A config that sets seed_bits to 0 and is taken    *)
(* leaves the Token with seed_bits 0, the width encode then uses for every   *)
(* layer it seeds.                                                           *)
C24_ZeroSeedBits ==
    (/\ last.op = "config"
     /\ last.outcome = "return"
     /\ last.arg.seed_bits = PyInt(0))
       => seed_bits = 0

\* The token holds a private token of `bits` bits in the form data_type
\* names: an integer of at most that many bits, or base64 text of the bytes
\* that many bits fill.
Carries(tok, data_type, bits) ==
    CASE data_type = "int" -> tok.t = "int" /\ tok.v >= 0 /\ bit_length(tok.v) <= bits
      [] data_type = "base64" ->
           /\ tok.t = "str"
           /\ \A i \in 1..Len(tok.v) : tok.v[i] \in UrlSafeChars
           /\ (6 * Len(tok.v)) \div 8 = (bits + 7) \div 8
      [] OTHER -> FALSE

(* C26: decode trims the alignment surplus only.  Without layers, decode of  *)
(* an integer of at most expected_bits bits, or of base64 text of the bytes  *)
(* that expected_bits bits fill, is not rejected: it returns a private token *)
(* of expected_bits bits.                                                    *)
C26_TrimsAlignmentSurplus ==
    (/\ last.op = "decode"
     /\ layers = << >>
     /\ Carries(last.arg[1], last.arg[2], random_bits))
       => /\ last.outcome = "return"
          /\ PrivateToken(last.value).t = "int"
          /\ PrivateToken(last.value).v < Pow2(random_bits)

(* C29: padding and its removal.  For a token t with 0 < t < 2^L, L the      *)
(* public-token width without padding, the text encode_b64(t, bit_length=L)  *)
(* returns holds an integer whose bit length is the width with padding and   *)
(* whose low L bits are t.                                                   *)
C29_PaddedTokenAccepted ==
    (/\ last.op = "encode_b64"
     /\ last.outcome = "return"
     /\ last.value.t = "tuple"
     /\ layers = << >>
     /\ last.arg[1].v > 0
     /\ last.arg[2].v = random_bits
     /\ last.arg[1].v < Pow2(random_bits))
       => LET i == b64_to_int(last.value.v[1].v)
          IN  /\ i.ok
              /\ bit_length(i.v) = public_token_bit_length(TRUE).v
              /\ i.v % Pow2(random_bits) = last.arg[1].v
              /\ decode_b64(last.value.v[1], public_token_bit_length(TRUE).v)
                    = [outcome |-> "return", value |-> PyInt(i.v)]

\* encode_b64 has padded the 8-bit token 165 with the random value 63 under a
\* public-token width of 8: bits 12 to 17 are set, bit 17 by the marker too.
C29_Witness ==
    /\ last.op = "encode_b64"
    /\ last.outcome = "return"
    /\ random_bits = 8
    /\ last.arg = << PyInt(165), PyInt(8) >>
    /\ public_token.t = "str"
    /\ b64_to_int(public_token.v).v = 165 + 63 * Pow2(12)

(* C27: extract undoes insert.  When an insert of n bits V at positions P    *)
(* that are in range is followed by extract at P reversed, the extract       *)
(* returns V bit for bit and the content is again what it was before the     *)
(* insert; the insert made the content n bits longer and the extract makes   *)
(* it n bits shorter.                                                        *)
C27_ExtractUndoesInsert ==
    [][(/\ last.op = "insert"
        /\ InRange(last.arg.content, last.arg.positions)
        /\ last'.op = "extract"
        /\ last'.arg.positions = reverse(last.arg.positions))
          => /\ last'.outcome = "return"
             /\ last'.value = Tuple(last.arg.b)
             /\ heap'[1] = last.arg.content
             /\ Len(heap[1]) = Len(last.arg.content) + Len(last.arg.positions)
             /\ Len(heap'[1]) = Len(heap[1]) - Len(last.arg.positions)]_vars

\* extract at the positions 1, 0 has returned the bits 01 from a content of
\* four bits and left two.
C27_Witness ==
    /\ last.op = "extract"
    /\ last.outcome = "return"
    /\ last.arg.positions = << 1, 0 >>
    /\ last.value = Tuple(<< 0, 1 >>)
    /\ Len(last.arg.content) = 4
    /\ Len(heap[1]) = 2

(* C23: generated positions.  generate_bit_positions returns `bits`          *)
(* positions, the i-th (from 0) being the i-th number of the generator       *)
(* scaled into the closed interval from 0 to max_position + i, a bound that  *)
(* grows by one per draw.                                                    *)
C23_GrowingBound ==
    last.op = "generate_bit_positions"
       => LET positions == last.value.v
          IN  /\ Len(positions) = last.arg.bits
              /\ \A i \in 1..Len(positions) :
                    /\ positions[i] >= 0
                    /\ positions[i] <= last.arg.max_position + (i - 1)
                    /\ positions[i]
                          = rand_int(last.arg.seed[i], 0,
                                     last.arg.max_position + (i - 1))

(* C23, amended: generate_bit_positions returns `bits` positions, the i-th   *)
(* being the i-th number of the generator scaled into the closed interval    *)
(* from 0 to max_position, the same bound for every draw.                    *)
C23_FixedBound ==
    last.op = "generate_bit_positions"
       => LET positions == last.value.v
          IN  /\ Len(positions) = last.arg.bits
              /\ \A i \in 1..Len(positions) :
                    /\ positions[i] >= 0
                    /\ positions[i] <= last.arg.max_position
                    /\ positions[i]
                          = rand_int(last.arg.seed[i], 0, last.arg.max_position)

\* Two positions have been drawn from the largest number twice under the
\* bound 1: the second is 1, not 2.
C23_Witness ==
    /\ last.op = "generate_bit_positions"
    /\ last.arg.bits = 2
    /\ last.arg.max_position = 1
    /\ \A i \in 1..2 : last.arg.seed[i] = Raw(65535, 65535)
    /\ last.value = Tuple(<< 1, 1 >>)

(* C28: rand_int stays between its endpoints.  For every number of the       *)
(* generator and the endpoints in either order, rand_int returns an integer  *)
(* from the smaller endpoint to the larger one, and the endpoint itself when *)
(* the two are equal.                                                        *)
C28_RandIntInRange ==
    last.op = "rand_int"
       => LET a == last.arg[2]
              b == last.arg[3]
          IN  /\ last.outcome = "return"
              /\ last.value.t = "int"
              /\ last.value.v >= (IF a < b THEN a ELSE b)
              /\ last.value.v <= (IF a < b THEN b ELSE a)
              /\ a = b => last.value.v = a

\* rand_int(2, -1) on the largest number of the generator has returned 2.
C28_Witness ==
    /\ last.op = "rand_int"
    /\ last.arg = << Raw(65535, 65535), 2, 0 - 1 >>
    /\ last.value = PyInt(2)

\* The bits encode adds for the layers ls, none of which carries positions:
\* per layer its width and one seed of seed_bits bits.
RECURSIVE SeededWidth(_)
SeededWidth(ls) ==
    IF ls = << >> THEN 0
    ELSE ls[1].v[1].v + seed_bits + SeededWidth(Tail(ls))

(* C22: seed material in declaration order.  encode, called with one value   *)
(* per layer on a Token with k layers without explicit positions, takes the  *)
(* k values of chunk(k) in order, one per layer, and returns: the public     *)
(* token then holds, besides the private token, the value bits and one seed  *)
(* per layer.                                                                *)
C22_SeedsInDeclarationOrder ==
    (/\ last.op = "encode"
     /\ stored_token_bits # Unset
     /\ secret_key_collection # Unset
     /\ layers # << >>
     /\ Len(last.arg.v) = Len(layers))
       => /\ last.outcome = "return"
          /\ Len(heap[public_token.v])
                = Len(heap[stored_token.v]) + SeededWidth(layers)

(* C25: decode undoes encode.  decode, called with text on a Token with      *)
(* layers, goes through the layers last to first, removing per layer the     *)
(* seed bits and then the value bits, and ends by returning: the values it   *)
(* found, one per layer after the private token, or the value that stands    *)
(* for no result.                                                            *)
C25_DecodeUndoesEncode ==
    (/\ last.op = "decode"
     /\ last.arg[2] = "None"
     /\ last.arg[1].t = "str"
     /\ stored_token_bits # Unset
     /\ secret_key_collection # Unset
     /\ layers # << >>)
       => /\ last.outcome = "return"
          /\ last.value.t = "tuple" => Len(LayerValues(last.value)) = Len(layers)

(* C30: the integer helpers are inverses under reversed positions.  For a    *)
(* non-negative source, positions P with 0 <= P[j] <= bit_length(source) + j *)
(* and a value v below 2^len(P), extract_bits called on                      *)
(* insert_bits(source, v, P) with P reversed returns (source, v).            *)
C30_IntegerHelpersInverse ==
    (/\ last.op = "extract_bits"
     /\ last.arg.positions = reverse(last.arg.spliced.positions))
       => /\ last.outcome = "return"
          /\ last.value = Tuple(<< PyInt(last.arg.spliced.source),
                                   PyInt(last.arg.spliced.insert) >>)

=============================================================================
